---- MODULE Spec2Model ----
(***************************************************************************)
(* Model of BAlleleFreqFormat.py (GTCtoVCF): the allele-string parser, the  *)
(* strand normaliser, the indel resolver and the B-allele-frequency        *)
(* aggregator generate_sample_format_info.                                 *)
(*                                                                         *)
(* Strings are sequences of one-character strings, so that slicing,        *)
(* splitting and len() are computed as Python computes them.  A float is a *)
(* record [nan, val, den] standing for val / den; the entries of the       *)
(* frequency array count twentieths (den = One), which keeps 1 - f exact,  *)
(* and the mean of two entries doubles den when their sum is odd.  A       *)
(* function's outcome is a                                                 *)
(* record [err, val]: err = "none" when it returns val, else the name of   *)
(* the exception it raises.                                                *)
(***************************************************************************)
EXTENDS Integers, Sequences, FiniteSets

VARIABLES vcf_record, b_allele_freq, pc, fn, snp_arg, i, bpm_record,
          route, alleles, b_allele_freq_list, outcome

vars == <<vcf_record, b_allele_freq, pc, fn, snp_arg, i, bpm_record,
          route, alleles, b_allele_freq_list, outcome>>

----------------------------------------------------------------------------
(* Bounds and input domains *)

MaxProbes == 3
MaxAlts == 2
One == 20

NaN == [nan |-> TRUE, val |-> 0, den |-> One]
Num(v) == [nan |-> FALSE, val |-> v, den |-> One]

Chars == {"A", "T", "G", "C", "I", "D", "N", "/"}
SnpStrings == {<<"[", x, "/", y, "]">> : x \in Chars, y \in Chars}

RefAlleles == {<<"A">>, <<"A", "T", "G">>}
AltAlleles == {<<"A">>, <<"G">>, <<"A", "T", "G">>}

RECURSIVE SeqsUpTo(_, _)
SeqsUpTo(S, k) ==
    IF k = 0 THEN {<<>>}
    ELSE LET shorter == SeqsUpTo(S, k - 1)
         IN shorter \cup {Append(s, x) : s \in shorter, x \in S}

VcfRecords == [REF : RefAlleles, ALT : SeqsUpTo(AltAlleles, MaxAlts)]

FreqArrays == {<<Num(4), Num(8)>>, <<Num(6), NaN>>, <<Num(5), Num(8)>>}

\* the values of RefStrand
Strands == {"Unknown", "Plus", "Minus"}
BpmRecords(freqs) ==
    [snp : SnpStrings, ref_strand : Strands, is_indel : BOOLEAN,
     index_num : 0..Len(freqs)]

NoRecord == [snp |-> <<>>, ref_strand |-> "none", is_indel |-> FALSE, index_num |-> 0]

----------------------------------------------------------------------------
(* Python primitives used by the module *)

Ok(v) == [err |-> "none", val |-> v]
Raise(e) == [err |-> e, val |-> <<>>]

\* s[lo:hi] on a string: out-of-range bounds are clipped
PySlice(s, lo, hi) ==
    LET top == IF hi < Len(s) THEN hi ELSE Len(s)
    IN IF lo >= top THEN <<>> ELSE SubSeq(s, lo + 1, top)

\* s.split(sep): every occurrence of sep cuts, empty tokens are kept
RECURSIVE PySplit(_, _)
PySplit(s, sep) ==
    LET hits == {k \in 1..Len(s) : s[k] = sep}
    IN IF hits = {} THEN <<s>>
       ELSE LET k == CHOOSE h \in hits : \A g \in hits : h <= g
            IN <<SubSeq(s, 1, k - 1)>> \o PySplit(SubSeq(s, k + 1, Len(s)), sep)

\* seq[idx] on a list or array: negative indices count from the end
PyGetItem(seq, idx) ==
    IF idx >= 0 /\ idx < Len(seq) THEN Ok(seq[idx + 1])
    ELSE IF idx < 0 /\ idx >= 0 - Len(seq) THEN Ok(seq[Len(seq) + idx + 1])
    ELSE Raise("IndexError")

----------------------------------------------------------------------------
(* Module-level code *)

REVERSE_COMPLEMENT ==
    [c \in {"A", "T", "G", "C", "I", "D"} |->
        CASE c = "A" -> "T" [] c = "T" -> "A" [] c = "G" -> "C"
          [] c = "C" -> "G" [] c = "I" -> "I" [] c = "D" -> "D"]

\* `allele in REVERSE_COMPLEMENT`: the keys are one-character strings
IsKey(allele) == Len(allele) = 1 /\ allele[1] \in DOMAIN REVERSE_COMPLEMENT

\* variant of the parser that leaves out the check of the second allele
extract_alleles_unchecked_second(snp_string) ==
    LET tokens == PySplit(PySlice(snp_string, 1, 4), "/")
    IN IF Len(tokens) # 2 THEN Raise("ValueError")
       ELSE IF ~IsKey(tokens[1]) THEN Raise("InvalidAllele")
       ELSE Ok(<<tokens[1], tokens[2]>>)

extract_alleles_from_snp_string(snp_string) ==
    LET tokens == PySplit(PySlice(snp_string, 1, 4), "/")
    IN IF Len(tokens) # 2 THEN Raise("ValueError")
       ELSE IF ~IsKey(tokens[1]) THEN Raise("InvalidAllele")
       ELSE IF ~IsKey(tokens[2]) THEN Raise("InvalidAllele")
       ELSE Ok(<<tokens[1], tokens[2]>>)

\* REVERSE_COMPLEMENT[allele]
Lookup(allele) ==
    IF IsKey(allele) THEN Ok(<<REVERSE_COMPLEMENT[allele[1]]>>) ELSE Raise("KeyError")

extract_reverse_complement_alleles_from_snp_string(snp_string) ==
    LET r == extract_alleles_from_snp_string(snp_string)
    IN IF r.err # "none" THEN r
       ELSE LET c1 == Lookup(r.val[1])
                c2 == Lookup(r.val[2])
            IN IF c1.err # "none" THEN c1
               ELSE IF c2.err # "none" THEN c2
               ELSE Ok(<<c1.val, c2.val>>)

\* variant of the resolver that keys the order on "D" instead of "I"
convert_indel_alleles_swapped(snp_string, record) ==
    LET r == extract_alleles_from_snp_string(snp_string)
    IN IF r.err # "none" THEN r
       ELSE IF Len(record.ALT) # 1 THEN Raise("MultipleAlt")
       ELSE LET alt_allele == record.ALT[1]
                ref_allele == record.REF
            IN IF Len(alt_allele) = Len(ref_allele) THEN Raise("SameLength")
               ELSE LET pair == IF Len(alt_allele) < Len(ref_allele)
                                THEN <<alt_allele, ref_allele>>
                                ELSE <<ref_allele, alt_allele>>
                    IN IF r.val[1] = <<"D">>
                       THEN Ok(<<pair[2], pair[1]>>)
                       ELSE Ok(<<pair[1], pair[2]>>)

\* variant of the resolver without the assertion on the two lengths
convert_indel_alleles_no_length_check(snp_string, record) ==
    LET r == extract_alleles_from_snp_string(snp_string)
    IN IF r.err # "none" THEN r
       ELSE IF Len(record.ALT) # 1 THEN Raise("MultipleAlt")
       ELSE LET alt_allele == record.ALT[1]
                ref_allele == record.REF
                pair == IF Len(alt_allele) < Len(ref_allele)
                        THEN <<alt_allele, ref_allele>>
                        ELSE <<ref_allele, alt_allele>>
            IN IF r.val[1] = <<"I">>
               THEN Ok(<<pair[2], pair[1]>>)
               ELSE Ok(<<pair[1], pair[2]>>)

\* variant of the resolver that takes the longer sequence as the deletion
convert_indel_alleles_longer_deleted(snp_string, record) ==
    LET r == extract_alleles_from_snp_string(snp_string)
    IN IF r.err # "none" THEN r
       ELSE IF Len(record.ALT) # 1 THEN Raise("MultipleAlt")
       ELSE LET alt_allele == record.ALT[1]
                ref_allele == record.REF
            IN IF Len(alt_allele) = Len(ref_allele) THEN Raise("SameLength")
               ELSE LET pair == IF Len(alt_allele) > Len(ref_allele)
                                THEN <<alt_allele, ref_allele>>
                                ELSE <<ref_allele, alt_allele>>
                    IN IF r.val[1] = <<"I">>
                       THEN Ok(<<pair[2], pair[1]>>)
                       ELSE Ok(<<pair[1], pair[2]>>)

convert_indel_alleles(snp_string, record) ==
    LET r == extract_alleles_from_snp_string(snp_string)
    IN IF r.err # "none" THEN r
       ELSE IF Len(record.ALT) # 1 THEN Raise("MultipleAlt")
       ELSE LET allele1 == r.val[1]
                alt_allele == record.ALT[1]
                ref_allele == record.REF
            IN IF ~(Len(alt_allele) > Len(ref_allele) \/ Len(ref_allele) > Len(alt_allele))
               THEN Raise("SameLength")
               ELSE LET pair == IF Len(alt_allele) < Len(ref_allele)
                                THEN <<alt_allele, ref_allele>>
                                ELSE <<ref_allele, alt_allele>>
                        deletion_allele == pair[1]
                        insertion_allele == pair[2]
                    IN IF allele1 = <<"I">>
                       THEN Ok(<<insertion_allele, deletion_allele>>)
                       ELSE Ok(<<deletion_allele, insertion_allele>>)

----------------------------------------------------------------------------
(* generate_sample_format_info, step by step *)

\* variant of the early exit that lets two alternates through
has_more_than_two_alt(record) == Len(record.ALT) > 2

has_multiple_alt(record) == Len(record.ALT) > 1

\* variant of the dispatch that tests the strand before the indel flag
resolve_alleles_strand_first(rec, record) ==
    IF rec.ref_strand = "Minus"
    THEN [route |-> "minus",
          res |-> extract_reverse_complement_alleles_from_snp_string(rec.snp)]
    ELSE IF rec.is_indel
    THEN [route |-> "indel", res |-> convert_indel_alleles(rec.snp, record)]
    ELSE [route |-> "plus", res |-> extract_alleles_from_snp_string(rec.snp)]

\* the if / elif / else that picks the resolver of a probe
resolve_alleles(rec, record) ==
    IF rec.is_indel
    THEN [route |-> "indel", res |-> convert_indel_alleles(rec.snp, record)]
    ELSE IF rec.ref_strand = "Minus"
    THEN [route |-> "minus",
          res |-> extract_reverse_complement_alleles_from_snp_string(rec.snp)]
    ELSE [route |-> "plus", res |-> extract_alleles_from_snp_string(rec.snp)]

\* 1. - b_allele_freq in floating point: NaN stays NaN
flip(f) == IF f.nan THEN NaN ELSE [nan |-> FALSE, val |-> f.den - f.val, den |-> f.den]

\* variant of the orientation that flips when the first allele is the reference
normalize_to_reference_inverted(allele1, allele2, ref_allele, freq) ==
    IF ~(allele1 = ref_allele \/ allele2 = ref_allele) THEN Raise("AlleleMismatch")
    ELSE IF allele1 = ref_allele THEN Ok(<<flip(freq)>>)
    ELSE Ok(<<freq>>)

\* variant of the orientation that skips a probe matching neither allele
normalize_to_reference_skipping(allele1, allele2, ref_allele, freq) ==
    IF ~(allele1 = ref_allele \/ allele2 = ref_allele) THEN Ok(<<>>)
    ELSE IF allele1 = ref_allele THEN Ok(<<freq>>)
    ELSE Ok(<<flip(freq)>>)

\* variant of the orientation without the assertion
normalize_to_reference_unasserted(allele1, allele2, ref_allele, freq) ==
    IF allele1 = ref_allele THEN Ok(<<freq>>) ELSE Ok(<<flip(freq)>>)

\* the assertion on the reference allele and the value appended to the list
normalize_to_reference(allele1, allele2, ref_allele, freq) ==
    IF ~(allele1 = ref_allele \/ allele2 = ref_allele) THEN Raise("AlleleMismatch")
    ELSE IF allele1 = ref_allele THEN Ok(<<freq>>)
    ELSE Ok(<<flip(freq)>>)

\* one pass of the loop body for the probe rec
loop_body(rec, record, freqs, freq_list) ==
    LET looked == PyGetItem(freqs, rec.index_num)
    IN IF looked.err # "none"
       THEN [err |-> looked.err, route |-> "none", alleles |-> <<>>, list |-> freq_list]
       ELSE LET rr == resolve_alleles(rec, record)
            IN IF rr.res.err # "none"
               THEN [err |-> rr.res.err, route |-> rr.route, alleles |-> <<>>,
                     list |-> freq_list]
               ELSE LET nr == normalize_to_reference(rr.res.val[1], rr.res.val[2],
                                                     record.REF, looked.val)
                    IN [err |-> nr.err, route |-> rr.route, alleles |-> rr.res.val,
                        list |-> IF nr.err = "none" THEN freq_list \o nr.val
                                 ELSE freq_list]

RECURSIVE insert_sorted(_, _)
insert_sorted(s, v) ==
    IF s = <<>> THEN <<v>>
    ELSE IF v <= Head(s) THEN <<v>> \o s
    ELSE <<Head(s)>> \o insert_sorted(Tail(s), v)

RECURSIVE sorted(_)
sorted(s) == IF s = <<>> THEN <<>> ELSE insert_sorted(sorted(Tail(s)), Head(s))

\* (a + b) / 2. for a / d and b / d, exactly: over d when a + b is even, over 2 d if not
mean_of_two(a, b, d) ==
    IF (a + b) % 2 = 0 THEN [nan |-> FALSE, val |-> (a + b) \div 2, den |-> d]
    ELSE [nan |-> FALSE, val |-> a + b, den |-> 2 * d]

\* np.median in place of np.nanmedian: one NaN entry makes the result NaN
plain_median(freq_list) ==
    LET srt == sorted([k \in 1..Len(freq_list) |-> freq_list[k].val])
        m == Len(srt)
    IN IF m = 0 \/ \E k \in 1..m : freq_list[k].nan THEN NaN
       ELSE IF m % 2 = 1
       THEN [nan |-> FALSE, val |-> srt[(m + 1) \div 2], den |-> freq_list[1].den]
       ELSE mean_of_two(srt[m \div 2], srt[m \div 2 + 1], freq_list[1].den)

\* np.nanmedian: the median of the entries that are not NaN, NaN when none is left
\* (the entries of one list share their den: they come from one frequency array)
nanmedian(freq_list) ==
    LET kept == SelectSeq(freq_list, LAMBDA f : ~f.nan)
        srt == sorted([k \in 1..Len(kept) |-> kept[k].val])
        m == Len(srt)
    IN IF m = 0 THEN NaN
       ELSE IF m % 2 = 1
       THEN [nan |-> FALSE, val |-> srt[(m + 1) \div 2], den |-> kept[1].den]
       ELSE mean_of_two(srt[m \div 2], srt[m \div 2 + 1], kept[1].den)

NoOutcome == [kind |-> "none", err |-> "none", num |-> NaN, pair |-> <<>>]
Missing == [kind |-> "missing", err |-> "none", num |-> NaN, pair |-> <<>>]
Float(f) == [kind |-> "float", err |-> "none", num |-> f, pair |-> <<>>]
Raised(e) == [kind |-> "raised", err |-> e, num |-> NaN, pair |-> <<>>]
Pair(p) == [kind |-> "pair", err |-> "none", num |-> NaN, pair |-> p]
OfResult(r) == IF r.err = "none" THEN Pair(r.val) ELSE Raised(r.err)

\* the final reduction: "." when the median is NaN
final_b_allele_freq(freq_list) ==
    LET med == nanmedian(freq_list)
    IN IF med.nan THEN Missing ELSE Float(med)

----------------------------------------------------------------------------
(* State machine *)

Init ==
    /\ vcf_record \in VcfRecords
    /\ b_allele_freq \in FreqArrays
    /\ pc = "idle"
    /\ fn = "none"
    /\ snp_arg = <<>>
    /\ i = 0
    /\ bpm_record = NoRecord
    /\ route = "none"
    /\ alleles = <<>>
    /\ b_allele_freq_list = <<>>
    /\ outcome = NoOutcome

Call_extract_alleles_from_snp_string ==
    /\ pc = "idle"
    /\ \E s \in SnpStrings :
        /\ snp_arg' = s
        /\ outcome' = OfResult(extract_alleles_from_snp_string(s))
    /\ fn' = "extract_alleles_from_snp_string"
    /\ pc' = "done"
    /\ UNCHANGED <<vcf_record, b_allele_freq, i, bpm_record, route, alleles,
                   b_allele_freq_list>>

Call_extract_reverse_complement_alleles_from_snp_string ==
    /\ pc = "idle"
    /\ \E s \in SnpStrings :
        /\ snp_arg' = s
        /\ outcome' = OfResult(extract_reverse_complement_alleles_from_snp_string(s))
    /\ fn' = "extract_reverse_complement_alleles_from_snp_string"
    /\ pc' = "done"
    /\ UNCHANGED <<vcf_record, b_allele_freq, i, bpm_record, route, alleles,
                   b_allele_freq_list>>

Call_convert_indel_alleles ==
    /\ pc = "idle"
    /\ \E s \in SnpStrings :
        /\ snp_arg' = s
        /\ outcome' = OfResult(convert_indel_alleles(s, vcf_record))
    /\ fn' = "convert_indel_alleles"
    /\ pc' = "done"
    /\ UNCHANGED <<vcf_record, b_allele_freq, i, bpm_record, route, alleles,
                   b_allele_freq_list>>

\* entry of generate_sample_format_info up to the loop
Call_generate_sample_format_info ==
    /\ pc = "idle"
    /\ fn' = "generate_sample_format_info"
    /\ IF has_multiple_alt(vcf_record)
       THEN pc' = "done" /\ outcome' = Missing
       ELSE pc' = "loop" /\ outcome' = NoOutcome
    /\ UNCHANGED <<vcf_record, b_allele_freq, snp_arg, i, bpm_record, route,
                   alleles, b_allele_freq_list>>

\* the body of the loop for bpm_records[i], the next probe of the caller's list
LoopIteration ==
    /\ pc = "loop"
    /\ i < MaxProbes
    /\ \E rec \in BpmRecords(b_allele_freq) :
        LET step == loop_body(rec, vcf_record, b_allele_freq, b_allele_freq_list)
        IN /\ bpm_record' = rec
           /\ route' = step.route
           /\ alleles' = step.alleles
           /\ b_allele_freq_list' = step.list
           /\ IF step.err = "none"
              THEN pc' = "body_done" /\ outcome' = NoOutcome
              ELSE pc' = "done" /\ outcome' = Raised(step.err)
    /\ UNCHANGED <<vcf_record, b_allele_freq, fn, snp_arg, i>>

\* the for statement steps to the next index; the locals of the body are dead
LoopAdvance ==
    /\ pc = "body_done"
    /\ pc' = "loop"
    /\ i' = i + 1
    /\ bpm_record' = NoRecord
    /\ route' = "none"
    /\ alleles' = <<>>
    /\ UNCHANGED <<vcf_record, b_allele_freq, fn, snp_arg, b_allele_freq_list, outcome>>

\* i = len(bpm_records): the loop ends and the list is reduced
LoopExit ==
    /\ pc = "loop"
    /\ pc' = "done"
    /\ outcome' = final_b_allele_freq(b_allele_freq_list)
    /\ UNCHANGED <<vcf_record, b_allele_freq, fn, snp_arg, i, bpm_record, route,
                   alleles, b_allele_freq_list>>

Next ==
    \/ Call_extract_alleles_from_snp_string
    \/ Call_extract_reverse_complement_alleles_from_snp_string
    \/ Call_convert_indel_alleles
    \/ Call_generate_sample_format_info
    \/ LoopIteration
    \/ LoopAdvance
    \/ LoopExit

Spec == Init /\ [][Next]_vars

----------------------------------------------------------------------------
(* Vocabulary of the properties, stated apart from the operators above *)

CodeSet == {"A", "T", "G", "C", "I", "D"}

\* the X and the Y of a bracket string "[X/Y]"
FirstCode(s) == s[2]
SecondCode(s) == s[4]
BothCodesValid(s) == FirstCode(s) \in CodeSet /\ SecondCode(s) \in CodeSet
HasSlashCode(s) == FirstCode(s) = "/" \/ SecondCode(s) = "/"

Complement(c) ==
    CASE c = "A" -> "T" [] c = "T" -> "A" [] c = "G" -> "C" [] c = "C" -> "G"
      [] OTHER -> c

InAggregator == fn = "generate_sample_format_info"
ProbeRead == InAggregator /\ bpm_record # NoRecord
IndexInRange == bpm_record.index_num < Len(b_allele_freq)
Measured == b_allele_freq[bpm_record.index_num + 1]
OneMinus(f) == IF f.nan THEN f ELSE [nan |-> FALSE, val |-> One - f.val, den |-> One]
Appended == b_allele_freq_list[Len(b_allele_freq_list)]
RefAllele == vcf_record.REF
SingleAltDiffers ==
    Len(vcf_record.ALT) = 1 /\ Len(vcf_record.ALT[1]) # Len(vcf_record.REF)
Longer ==
    IF Len(vcf_record.ALT[1]) > Len(vcf_record.REF)
    THEN vcf_record.ALT[1] ELSE vcf_record.REF
Shorter ==
    IF Len(vcf_record.ALT[1]) > Len(vcf_record.REF)
    THEN vcf_record.REF ELSE vcf_record.ALT[1]

\* the pair a non-indel probe is expected to resolve to
StrandPair(rec) ==
    IF rec.ref_strand = "Minus"
    THEN <<<<Complement(FirstCode(rec.snp))>>, <<Complement(SecondCode(rec.snp))>>>>
    ELSE <<<<FirstCode(rec.snp)>>, <<SecondCode(rec.snp)>>>>

\* the non-missing values of a list, and the value of rank r among them
Present(l) == {k \in 1..Len(l) : ~l[k].nan}
RankValue(l, r) ==
    CHOOSE v \in {l[k].val : k \in Present(l)} :
        /\ Cardinality({k \in Present(l) : l[k].val < v}) < r
        /\ r <= Cardinality({k \in Present(l) : l[k].val <= v})
\* twice the median of the non-missing values, in twentieths
TwiceMedianOfPresent(l) ==
    LET m == Cardinality(Present(l))
    IN IF m % 2 = 1 THEN 2 * RankValue(l, (m + 1) \div 2)
       ELSE RankValue(l, m \div 2) + RankValue(l, m \div 2 + 1)

\* the error a probe is expected to stop the aggregation with, "none" if it passes
ExpectedProbeError(rec) ==
    IF rec.index_num >= Len(b_allele_freq) THEN "IndexError"
    ELSE IF HasSlashCode(rec.snp) THEN "ValueError"
    ELSE IF ~BothCodesValid(rec.snp) THEN "InvalidAllele"
    ELSE IF rec.is_indel
         THEN IF Len(vcf_record.ALT) # 1 THEN "MultipleAlt"
              ELSE IF Len(vcf_record.ALT[1]) = Len(vcf_record.REF) THEN "SameLength"
              ELSE "none"
    ELSE IF RefAllele \notin {StrandPair(rec)[1], StrandPair(rec)[2]}
         THEN "AlleleMismatch"
    ELSE "none"

----------------------------------------------------------------------------
(* Properties *)

\* C1: a variant with more than one alternate allele makes the aggregator
\* return "." at once: no probe is read, nothing is appended, nothing is raised.
C1_MultiAllelicReturnsMissing ==
    (InAggregator /\ Len(vcf_record.ALT) > 1) =>
        /\ pc = "done"
        /\ outcome.kind = "missing"
        /\ outcome.err = "none"
        /\ bpm_record = NoRecord
        /\ b_allele_freq_list = <<>>
        /\ i = 0

C1_Witness ==
    InAggregator /\ Len(vcf_record.ALT) = 2 /\ pc = "done" /\ outcome.kind = "missing"

\* C2: a first, non-indel probe with a measured frequency f resolves to the
\* parsed pair (Plus) or the complemented pair (Minus); it contributes f when
\* the first resolved allele is the reference and 1 - f when only the second
\* is; with that probe alone the aggregator returns the contribution.
C2_SingleProbeOrientation ==
    /\ (ProbeRead /\ pc = "body_done" /\ i = 0 /\ ~bpm_record.is_indel
            /\ ~Measured.nan) =>
        /\ alleles = StrandPair(bpm_record)
        /\ (alleles[1] = RefAllele => b_allele_freq_list = <<Measured>>)
        /\ (alleles[1] # RefAllele /\ alleles[2] = RefAllele =>
                b_allele_freq_list = <<OneMinus(Measured)>>)
    /\ (InAggregator /\ pc = "done" /\ i = 1 /\ outcome.kind # "raised"
            /\ ~b_allele_freq_list[1].nan) =>
        (outcome.kind = "float" /\ outcome.num = b_allele_freq_list[1])

C2_Witness ==
    /\ ProbeRead /\ pc = "body_done" /\ i = 0
    /\ ~bpm_record.is_indel /\ bpm_record.ref_strand = "Minus"
    /\ alleles[1] # RefAllele /\ alleles[2] = RefAllele
    /\ Measured = Num(6)
    /\ b_allele_freq_list = <<Num(14)>>

\* C3: when the aggregator returns, it returns "." exactly when the oriented
\* list has no non-missing value, and otherwise the median of the non-missing
\* values alone (middle value, or mean of the two middle values).
C3_MedianOfPresentValues ==
    (InAggregator /\ pc = "done" /\ outcome.kind # "raised") =>
        /\ (outcome.kind = "missing") <=> (Present(b_allele_freq_list) = {})
        /\ Present(b_allele_freq_list) # {} =>
            /\ outcome.kind = "float"
            /\ ~outcome.num.nan
            /\ outcome.num.den > 0
            /\ 2 * One * outcome.num.val
                 = TwiceMedianOfPresent(b_allele_freq_list) * outcome.num.den

C3_Witness ==
    /\ InAggregator /\ pc = "done"
    /\ Len(b_allele_freq_list) = 3
    /\ Cardinality(Present(b_allele_freq_list)) = 2
    /\ outcome.kind = "float" /\ outcome.num = Num(10)

\* the mean of 0.25 and 0.4 is 0.325, thirteen fortieths
C3_OddSumReached ==
    /\ InAggregator /\ pc = "done"
    /\ b_allele_freq_list = <<Num(5), Num(8)>>
    /\ outcome.num = [nan |-> FALSE, val |-> 13, den |-> 2 * One]

\* C4 as stated: with one alternate of another length than the reference, the
\* resolver returns (longer, shorter) when the first code is "I" and
\* (shorter, longer) for every other valid first code, whatever the second
\* code.
C4_SecondCodeNeverMatters ==
    (fn = "convert_indel_alleles" /\ SingleAltDiffers
            /\ FirstCode(snp_arg) \in CodeSet) =>
        /\ outcome.kind = "pair"
        /\ outcome.pair = IF FirstCode(snp_arg) = "I"
                          THEN <<Longer, Shorter>> ELSE <<Shorter, Longer>>

\* C4 amended: with one alternate of another length than the reference and a
\* recognized second code, the resolver returns (longer, shorter) when the
\* first code is "I" and (shorter, longer) for every other valid first code,
\* the same for every recognized second code; with a valid first code and an
\* unrecognized second code it returns nothing: it fails on unpacking when the
\* second code is "/" and with the invalid-allele error otherwise.
C4_IndelOrderFollowsFirstCode ==
    (fn = "convert_indel_alleles" /\ SingleAltDiffers
            /\ FirstCode(snp_arg) \in CodeSet) =>
        /\ (SecondCode(snp_arg) \in CodeSet =>
                /\ outcome.kind = "pair"
                /\ outcome.pair = IF FirstCode(snp_arg) = "I"
                                  THEN <<Longer, Shorter>> ELSE <<Shorter, Longer>>)
        /\ (SecondCode(snp_arg) = "/" =>
                outcome.kind = "raised" /\ outcome.err = "ValueError")
        /\ (SecondCode(snp_arg) \notin CodeSet \cup {"/"} =>
                outcome.kind = "raised" /\ outcome.err = "InvalidAllele")

C4_Witness ==
    /\ fn = "convert_indel_alleles"
    /\ vcf_record = [REF |-> <<"A">>, ALT |-> <<<<"A", "T", "G">>>>]
    /\ snp_arg = <<"[", "D", "/", "I", "]">>
    /\ outcome.pair = <<<<"A">>, <<"A", "T", "G">>>>

\* C5: the resolver returns a pair only with exactly one alternate of another
\* length than the reference; an invalid code fails first, then the number of
\* alternates, then the equal lengths.
C5_IndelResolverFailures ==
    (fn = "convert_indel_alleles") =>
        /\ (Len(vcf_record.ALT) # 1 => outcome.kind = "raised")
        /\ (Len(vcf_record.ALT) = 1 /\ Len(vcf_record.ALT[1]) = Len(vcf_record.REF)
                => outcome.kind = "raised")
        /\ (outcome.kind = "pair" => SingleAltDiffers)
        /\ (~BothCodesValid(snp_arg) /\ ~HasSlashCode(snp_arg)
                => outcome.err = "InvalidAllele")
        /\ (~BothCodesValid(snp_arg) => outcome.err \in {"InvalidAllele", "ValueError"})
        /\ (BothCodesValid(snp_arg) /\ Len(vcf_record.ALT) # 1
                => outcome.err = "MultipleAlt")
        /\ (BothCodesValid(snp_arg) /\ Len(vcf_record.ALT) = 1
                /\ Len(vcf_record.ALT[1]) = Len(vcf_record.REF)
                => outcome.err = "SameLength")

C5_Witness ==
    /\ fn = "convert_indel_alleles"
    /\ Len(vcf_record.ALT) = 1 /\ Len(vcf_record.ALT[1]) = Len(vcf_record.REF)
    /\ BothCodesValid(snp_arg)
    /\ outcome.err = "SameLength"

\* C6: a probe whose resolved pair holds the reference allele in neither
\* position makes the call raise the allele-mismatch error with no value, also
\* after valid probes; whatever is raised is the error of the probe being
\* processed, every earlier probe having been appended.
C6_MismatchIsFatal ==
    /\ (ProbeRead /\ IndexInRange /\ ~bpm_record.is_indel
            /\ BothCodesValid(bpm_record.snp)
            /\ RefAllele \notin {StrandPair(bpm_record)[1], StrandPair(bpm_record)[2]}) =>
        /\ pc = "done"
        /\ outcome.kind = "raised"
        /\ outcome.err = "AlleleMismatch"
        /\ outcome.num.nan
    /\ (ProbeRead /\ pc = "done") =>
        /\ outcome.kind = "raised"
        /\ outcome.err = ExpectedProbeError(bpm_record)
        /\ Len(b_allele_freq_list) = i
    /\ (ProbeRead /\ pc = "body_done") => ExpectedProbeError(bpm_record) = "none"

C6_Witness ==
    /\ ProbeRead /\ pc = "done"
    /\ RefAllele = <<"A">>
    /\ alleles = <<<<"G">>, <<"C">>>>
    /\ outcome.err = "AlleleMismatch"
    /\ Len(b_allele_freq_list) = 2
    /\ Present(b_allele_freq_list) # {}

\* C7 as stated: every probe processed without raising has the reference
\* allele in exactly one position of its resolved pair.
C7_ExactlyOnePosition ==
    (ProbeRead /\ pc = "body_done") =>
        (alleles[1] = RefAllele) # (alleles[2] = RefAllele)

\* C7 amended: every probe processed without raising has the reference allele
\* in at least one position of its resolved pair; with the reference in both
\* positions the probe is accepted and contributes its measured frequency.
C7_AtLeastOnePosition ==
    (ProbeRead /\ pc = "body_done") =>
        /\ (alleles[1] = RefAllele \/ alleles[2] = RefAllele)
        /\ Len(b_allele_freq_list) = i + 1
        /\ (alleles[1] = RefAllele /\ alleles[2] = RefAllele => Appended = Measured)

C7_Witness ==
    /\ ProbeRead /\ pc = "body_done"
    /\ bpm_record.snp = <<"[", "A", "/", "A", "]">>
    /\ bpm_record.ref_strand = "Plus"
    /\ alleles[1] = RefAllele /\ alleles[2] = RefAllele
    /\ Appended = Num(6)

\* C8 as stated: "[X/Y]" parses to (X, Y) when both codes are recognized and
\* fails with the invalid-allele error for every other single-character X, Y.
C8_InvalidAlleleForEveryOtherCode ==
    (fn = "extract_alleles_from_snp_string") =>
        IF BothCodesValid(snp_arg)
        THEN outcome.kind = "pair"
             /\ outcome.pair = <<<<FirstCode(snp_arg)>>, <<SecondCode(snp_arg)>>>>
        ELSE outcome.kind = "raised" /\ outcome.err = "InvalidAllele"

\* C8 amended: for X, Y other than "/", "[X/Y]" parses to (X, Y) when both are
\* recognized and fails with the invalid-allele error otherwise; with X or Y
\* equal to "/" the call fails on unpacking; every returned pair is made of
\* recognized codes and the complement lookup never meets an unknown code.
C8_ParserContract ==
    /\ (fn = "extract_alleles_from_snp_string") =>
        /\ (BothCodesValid(snp_arg) =>
                /\ outcome.kind = "pair"
                /\ outcome.pair = <<<<FirstCode(snp_arg)>>, <<SecondCode(snp_arg)>>>>)
        /\ (~BothCodesValid(snp_arg) /\ ~HasSlashCode(snp_arg) =>
                outcome.kind = "raised" /\ outcome.err = "InvalidAllele")
        /\ (HasSlashCode(snp_arg) =>
                outcome.kind = "raised" /\ outcome.err = "ValueError")
        /\ (outcome.kind = "pair" =>
                \A k \in 1..2 : Len(outcome.pair[k]) = 1 /\ outcome.pair[k][1] \in CodeSet)
    /\ outcome.err # "KeyError"
    /\ (fn = "extract_reverse_complement_alleles_from_snp_string"
            /\ outcome.kind = "pair") => BothCodesValid(snp_arg)

C8_Witness ==
    /\ fn = "extract_alleles_from_snp_string"
    /\ snp_arg = <<"[", "A", "/", "N", "]">>
    /\ outcome.kind = "raised" /\ outcome.err = "InvalidAllele"

\* C9: an indel probe is resolved by the indel resolver whatever its strand,
\* the complement is applied to the non-indel Minus probes only, and
\* complementing a complemented pair gives the parsed pair back.
C9_IndelsBypassComplement ==
    /\ (ProbeRead /\ IndexInRange) =>
        /\ (bpm_record.is_indel => route = "indel")
        /\ (route = "minus" <=> (~bpm_record.is_indel /\ bpm_record.ref_strand = "Minus"))
        /\ (bpm_record.is_indel /\ pc = "body_done" =>
                alleles \in {<<Longer, Shorter>>, <<Shorter, Longer>>})
    /\ (fn = "extract_reverse_complement_alleles_from_snp_string"
            /\ outcome.kind = "pair") =>
        /\ Complement(outcome.pair[1][1]) = FirstCode(snp_arg)
        /\ Complement(outcome.pair[2][1]) = SecondCode(snp_arg)

C9_Witness ==
    /\ ProbeRead /\ pc = "body_done"
    /\ bpm_record.is_indel /\ bpm_record.ref_strand = "Minus"
    /\ route = "indel"
    /\ alleles = <<<<"A", "T", "G">>, <<"A">>>>

\* C10: inside the aggregator an indel probe never raises the allele-mismatch
\* error, raises the alternate-count error only with zero alternates, resolves
\* to a pair with the reference in exactly one position, and contributes f when
\* (first code "I" and reference longer) or (other first code and reference
\* shorter), 1 - f otherwise.
C10_IndelProbeInAggregator ==
    /\ InAggregator /\ pc # "idle" /\ pc # "done" => Len(vcf_record.ALT) <= 1
    /\ (ProbeRead /\ bpm_record.is_indel) =>
        /\ outcome.err # "AlleleMismatch"
        /\ (outcome.err = "MultipleAlt" => Len(vcf_record.ALT) = 0)
        /\ (pc = "body_done" =>
                /\ (alleles[1] = RefAllele) # (alleles[2] = RefAllele)
                /\ Appended =
                     IF \/ FirstCode(bpm_record.snp) = "I"
                           /\ Len(vcf_record.REF) > Len(vcf_record.ALT[1])
                        \/ FirstCode(bpm_record.snp) # "I"
                           /\ Len(vcf_record.REF) < Len(vcf_record.ALT[1])
                     THEN Measured ELSE OneMinus(Measured))

C10_Witness ==
    /\ ProbeRead /\ pc = "body_done" /\ bpm_record.is_indel
    /\ FirstCode(bpm_record.snp) = "I"
    /\ vcf_record = [REF |-> <<"A">>, ALT |-> <<<<"A", "T", "G">>>>]
    /\ Measured = Num(4)
    /\ Appended = Num(16)

====
